---- MODULE Spec2Model ----
(***************************************************************************)
(* findCommentsInRaws (src/utils/findCommentsInRaws.js) and the rule       *)
(* double-slash-comment-whitespace-inside that consumes its records.       *)
(*                                                                         *)
(* The scan is the for-loop of findCommentsInRaws: one action per case of  *)
(* its switch, one step per loop iteration.  Strings are sequences of      *)
(* one-character strings; indices are 0-based as in the source, so the     *)
(* character at index k of s is s[k + 1].                                  *)
(***************************************************************************)
EXTENDS Integers, Sequences, FiniteSets

VARIABLES rawString, i, modesEntered, result, comment, status,
          expectation, warnings

vars == <<rawString, i, modesEntered, result, comment, status,
          expectation, warnings>>

(***************************************************************************)
(* Bounds of the model and the inputs the scan is run on.  An input is a   *)
(* concatenation of at most MaxFragments fragments: the single characters  *)
(* the switch distinguishes, and the two-character markers, so that        *)
(* inputs with several comments, strings and url() calls are reached.      *)
(***************************************************************************)
MaxFragments == 4

Fragments ==
    { <<"/">>, <<"/", "/">>, <<"/", "*">>, <<"*", "/">>,
      <<"\n">>, <<" ">>, <<"a">>,
      <<"(">>, <<")">>, <<"u", "r", "l", "(">>,
      <<"\"">> }

RECURSIVE Concatenations(_, _)
Concatenations(frags, n) ==
    IF n = 0 THEN {<<>>}
    ELSE LET shorter == Concatenations(frags, n - 1)
         IN  shorter \cup {s \o f : s \in shorter, f \in frags}

(***************************************************************************)
(* Character classes of the regular expressions of the source.             *)
(***************************************************************************)
\* \s
WhiteSpace == {" ", "\n", "\r", "\t"}
\* . (any character but a line terminator)
LineTerminators == {"\n", "\r"}
\* [a-zA-Z0-9_-]
IdentChars == {"a", "u", "r", "l", "U", "R", "L", "0", "_", "-"}
\* [:\s,.(){}*+/%]
DelimChars == {":", ",", ".", "(", ")", "{", "}", "*", "+", "/", "%"} \cup WhiteSpace

Min(a, b) == IF a < b THEN a ELSE b

\* String.prototype.substring(from, to): to is clipped to the length.
Substring(s, from, to) == SubSeq(s, from + 1, Min(to, Len(s)))

\* rawString[k]
At(s, k) == s[k + 1]

AllIn(s, from, to, class) == \A k \in from .. to - 1 : At(s, k) \in class

(***************************************************************************)
(* The regular expressions, by their backtracking semantics: a match is    *)
(* the tuple of split points the engine tries first (a greedy quantifier   *)
(* tries its longest run first, a lazy one its shortest).                  *)
(***************************************************************************)
NoMatch == [found |-> FALSE, groups |-> <<>>]

\* /(?:^|(?:\n)|(?:\r)|(?:\s-)|[:\s,.(){}*+/%])([a-zA-Z0-9_-]*)$/.exec(s)
\* A candidate is <<p, alt, q>>: the match starts at p, takes alternative
\* alt of the non-capturing group, and group 1 runs from q to the end.
FunctionNameCandidates(s) ==
    LET n == Len(s)
    IN  { c \in ({0} \X {1} \X {0})
                \cup { <<p, 2, p + 1>> : p \in {k \in 0 .. n - 1 : At(s, k) = "\n"} }
                \cup { <<p, 3, p + 1>> : p \in {k \in 0 .. n - 1 : At(s, k) = "\r"} }
                \cup { <<p, 4, p + 2>> : p \in {k \in 0 .. n - 2 :
                                                 /\ At(s, k) \in WhiteSpace
                                                 /\ At(s, k + 1) = "-"} }
                \cup { <<p, 5, p + 1>> : p \in {k \in 0 .. n - 1 : At(s, k) \in DelimChars} } :
          AllIn(s, c[3], n, IdentChars) }

FunctionNameMatch(s) ==
    LET cands == FunctionNameCandidates(s)
    IN  IF cands = {} THEN NoMatch
        ELSE LET first == CHOOSE c \in cands : \A d \in cands :
                              \/ c[1] < d[1]
                              \/ c[1] = d[1] /\ c[2] <= d[2]
             IN  [found |-> TRUE, groups |-> <<Substring(s, first[3], Len(s))>>]

\* rawString.substring(0, i).search(/\n\s*$/) === -1
InlineAfter(prefix) ==
    ~ \E p \in 0 .. Len(prefix) - 1 :
          /\ At(prefix, p) = "\n"
          /\ AllIn(prefix, p + 1, Len(prefix), WhiteSpace)

\* rawString.substring(i + 2).search(/^\s*?\S+\s*?\n/) !== -1
InlineBefore(rest) ==
    \E a \in 0 .. Len(rest) : \E b \in a + 1 .. Len(rest) : \E c \in b .. Len(rest) - 1 :
          /\ AllIn(rest, 0, a, WhiteSpace)
          /\ \A k \in a .. b - 1 : At(rest, k) \notin WhiteSpace
          /\ AllIn(rest, b, c, WhiteSpace)
          /\ At(rest, c) = "\n"

\* /^(\/\*+[!#]{0,1})(\s*)([\s\S]*?)(\s*?)(\*+\/)$/.exec(raw)
\* A split <<a, b, c, d>>: startToken = raw[0, a), left = raw[a, b),
\* text = raw[b, c), right = raw[c, d), endToken = raw[d, n).
CssStartTokenEnds(raw) ==
    LET n == Len(raw)
    IN  { a \in 2 .. n :
            /\ At(raw, 0) = "/"
            /\ \/ AllIn(raw, 1, a, {"*"})
               \/ /\ a >= 3
                  /\ AllIn(raw, 1, a - 1, {"*"})
                  /\ At(raw, a - 1) \in {"!", "#"} }

CssSplits(raw) ==
    LET n == Len(raw)
        lefts(a) == {b \in a .. n - 2 : AllIn(raw, a, b, WhiteSpace)}
        endTokens(b) == {d \in b .. n - 2 : AllIn(raw, d, n - 1, {"*"})}
        rights(b, d) == {c \in b .. d : AllIn(raw, c, d, WhiteSpace)}
    IN  IF n = 0 \/ At(raw, n - 1) # "/" THEN {}
        ELSE UNION { UNION { UNION { { <<a, b, c, d>> : c \in rights(b, d) }
                                     : d \in endTokens(b) }
                             : b \in lefts(a) }
                     : a \in CssStartTokenEnds(raw) }

\* The order of /^(\/\*+[!#]{0,1})(\s*?)([\s\S]*?)(\s*?)(\*+\/)$/, whose
\* left group is lazy.
CssPreferredLazyLeft(t, u) ==
    \/ t[1] > u[1]
    \/ t[1] = u[1] /\ t[2] < u[2]
    \/ t[1] = u[1] /\ t[2] = u[2] /\ t[3] < u[3]
    \/ t[1] = u[1] /\ t[2] = u[2] /\ t[3] = u[3] /\ t[4] <= u[4]

\* greedy startToken, greedy left, lazy text, lazy right
CssPreferred(t, u) ==
    \/ t[1] > u[1]
    \/ t[1] = u[1] /\ t[2] > u[2]
    \/ t[1] = u[1] /\ t[2] = u[2] /\ t[3] < u[3]
    \/ t[1] = u[1] /\ t[2] = u[2] /\ t[3] = u[3] /\ t[4] <= u[4]

CssMatch(raw) ==
    LET splits == CssSplits(raw)
    IN  IF splits = {} THEN NoMatch
        ELSE LET t == CHOOSE x \in splits : \A y \in splits : CssPreferred(x, y)
             IN  [found |-> TRUE,
                  groups |-> << Substring(raw, 0, t[1]),
                                Substring(raw, t[1], t[2]),
                                Substring(raw, t[2], t[3]),
                                Substring(raw, t[3], t[4]),
                                Substring(raw, t[4], Len(raw)) >>]

\* /^(\/+)(\s*)(.*?)(\s*?)$/.exec(raw)
\* A split <<a, b, c>>: startToken = raw[0, a), left = raw[a, b),
\* text = raw[b, c), right = raw[c, n).
DoubleSlashSplits(raw) ==
    LET n == Len(raw)
        lefts(a) == {b \in a .. n : AllIn(raw, a, b, WhiteSpace)}
        texts(b) == {c \in b .. n :
                        /\ \A k \in b .. c - 1 : At(raw, k) \notin LineTerminators
                        /\ AllIn(raw, c, n, WhiteSpace)}
    IN  UNION { UNION { { <<a, b, c>> : c \in texts(b) } : b \in lefts(a) }
                : a \in {a \in 1 .. n : AllIn(raw, 0, a, {"/"})} }

\* greedy startToken, greedy left, lazy text
DoubleSlashPreferred(t, u) ==
    \/ t[1] > u[1]
    \/ t[1] = u[1] /\ t[2] > u[2]
    \/ t[1] = u[1] /\ t[2] = u[2] /\ t[3] <= u[3]

DoubleSlashMatch(raw) ==
    LET splits == DoubleSlashSplits(raw)
    IN  IF splits = {} THEN NoMatch
        ELSE LET t == CHOOSE x \in splits : \A y \in splits : DoubleSlashPreferred(x, y)
             IN  [found |-> TRUE,
                  groups |-> << Substring(raw, 0, t[1]),
                                Substring(raw, t[1], t[2]),
                                Substring(raw, t[2], t[3]),
                                Substring(raw, t[3], Len(raw)) >>]

(***************************************************************************)
(* The state of one call of findCommentsInRaws, and of the rule run that   *)
(* made it.  status: "scanning" inside the for-loop, "returned" after      *)
(* line 168, "threw" when an iteration raised a TypeError, "reported"      *)
(* when the rule's callback has finished.                                  *)
(***************************************************************************)
Null == "null"

Inputs == Concatenations(Fragments, MaxFragments)

\* comment = {}
NoComment == [type |-> "none"]

InitOn(inputs) ==
    /\ rawString \in inputs
    /\ i = 0
    /\ modesEntered = << [mode |-> "normal", character |-> Null] >>
    /\ result = <<>>
    /\ comment = NoComment
    /\ status = "scanning"
    /\ expectation = Null
    /\ warnings = <<>>

Init == InitOn(Inputs)

\* Block comments with every body of at most MaxBody characters over the
\* characters the css pattern distinguishes (stars, flags, whitespace,
\* text, slash), beside the inputs of at most two fragments.
MaxBody == 5

CssBodyChars == {"*", "!", "#", " ", "\n", "a", "/"}

RECURSIVE StringsUpTo(_, _)
StringsUpTo(chars, n) ==
    IF n = 0 THEN {<<>>}
    ELSE LET shorter == StringsUpTo(chars, n - 1)
         IN  shorter \cup {Append(t, c) : t \in shorter, c \in chars}

CssInputs ==
    { <<"/", "*">> \o body \o <<"*", "/">> : body \in StringsUpTo(CssBodyChars, MaxBody) }
        \cup Concatenations(Fragments, 2)

InitCss == InitOn(CssInputs)

\* Inputs with both kinds of quote, the backslash, a minus sign, a
\* character outside the delimiter class and a carriage return, beside
\* the inputs of at most two fragments.
MaxText == 4

TextFragments ==
    { <<"\"">>, <<"'">>, <<"\\">>,
      <<"u", "r", "l", "(">>, <<"-">>, <<";">>,
      <<" ">>, <<"a">>, <<"/", "/">>, <<"\r">>, <<"\n">> }

TextInputs ==
    Concatenations(TextFragments, MaxText) \cup Concatenations(Fragments, 2)

InitText == InitOn(TextInputs)

\* Every input of at most MaxLine characters a line comment is made of:
\* slashes, both line terminators, whitespace and text, beside the inputs
\* of at most two fragments.
MaxLine == 5

LineChars == {"/", "\n", "\r", " ", "a"}

LineInputs ==
    StringsUpTo(LineChars, MaxLine) \cup Concatenations(Fragments, 2)

InitLine == InitOn(LineInputs)

\* The locals of one loop iteration (lines 37-42).
character == At(rawString, i)
prevChar == IF i > 0 THEN At(rawString, i - 1) ELSE Null
nextChar == IF i + 1 < Len(rawString) THEN At(rawString, i + 1) ELSE Null
lastModeIndex == Len(modesEntered) - 1
mode == At(modesEntered, lastModeIndex).mode

Push(stack, frame) == Append(stack, frame)
Pop(stack) == SubSeq(stack, 1, Len(stack) - 1)

\* An iteration of the loop is entered and lines 41-42 evaluate.
InLoop ==
    /\ status = "scanning"
    /\ i < Len(rawString)
    /\ modesEntered # <<>>

RuleUnchanged == UNCHANGED <<expectation, warnings>>

\* Line 42 with an empty stack: modesEntered[-1] is undefined and reading
\* its .mode raises a TypeError.
ModeOfUndefined ==
    /\ status = "scanning"
    /\ i < Len(rawString)
    /\ modesEntered = <<>>
    /\ status' = "threw"
    /\ UNCHANGED <<rawString, i, modesEntered, result, comment>>
    /\ RuleUnchanged

\* case "\"": case "'":
ExitsString(m, top, c, prev) ==
    m = "string" /\ top.character = c /\ prev # "\\"

Quote ==
    /\ InLoop
    /\ character \in {"\"", "'"}
    /\ modesEntered' =
         IF mode = "comment" THEN modesEntered
         ELSE IF ExitsString(mode, At(modesEntered, lastModeIndex), character, prevChar)
              THEN Pop(modesEntered)
              ELSE Push(modesEntered, [mode |-> "string", character |-> character])
    /\ i' = i + 1
    /\ UNCHANGED <<rawString, result, comment, status>>
    /\ RuleUnchanged

\* case "(":
ParenMode(functionName) == IF functionName = <<"u", "r", "l">> THEN "url" ELSE "parens"

OpenParen ==
    /\ InLoop
    /\ character = "("
    /\ IF mode = "comment" \/ mode = "string"
       THEN /\ i' = i + 1
            /\ UNCHANGED <<modesEntered, status>>
       ELSE LET m == FunctionNameMatch(Substring(rawString, 0, i))
            IN  IF m.found
                THEN /\ modesEntered' = Push(modesEntered,
                                             [mode |-> ParenMode(m.groups[1]),
                                              character |-> "("])
                     /\ i' = i + 1
                     /\ UNCHANGED status
                ELSE \* exec returned null: null[1] raises a TypeError
                     /\ status' = "threw"
                     /\ UNCHANGED <<i, modesEntered>>
    /\ UNCHANGED <<rawString, result, comment>>
    /\ RuleUnchanged

\* Line 78: a `)` inside a comment or a string is text.
ClosingParenIsText(m) == m = "comment" \/ m = "string"

\* case ")":
CloseParen ==
    /\ InLoop
    /\ character = ")"
    /\ modesEntered' =
         IF ClosingParenIsText(mode) THEN modesEntered ELSE Pop(modesEntered)
    /\ i' = i + 1
    /\ UNCHANGED <<rawString, result, comment, status>>
    /\ RuleUnchanged

\* The star of the opening marker is not skipped.
StarNotSkipped(k) == k

\* The star of an opening marker is read again by the next iteration.
OpeningStarReused(k) == k

\* The slash of a closing marker is read again by the next iteration.
ClosingSlashNotSkipped(k) == k

\* The i++ of lines 98, 112 and 136: the next loop iteration is skipped.
SkipStar(k) == k + 1
SkipSecondSlash(k) == k + 1
SkipClosingSlash(k) == k + 1

\* Any open group, not only url(, taken to suppress `//`.
NotACommentInAnyGroup(m) == m \in {"url", "parens"}

\* Line 101: `url(//path/to/file)` has no comment.
NotACommentInMode(m) == m = "url"

\* case "/":
Slash ==
    /\ InLoop
    /\ character = "/"
    /\ IF mode = "comment"
       THEN /\ i' = i + 1
            /\ UNCHANGED <<modesEntered, comment>>
       ELSE IF nextChar = "*"
       THEN /\ modesEntered' = Push(modesEntered, [mode |-> "comment", character |-> "/*"])
            /\ comment' = [type |-> "css",
                           start |-> i,
                           inlineAfter |-> InlineAfter(Substring(rawString, 0, i))]
            /\ i' = SkipStar(i) + 1
       ELSE IF nextChar = "/" /\ ~ NotACommentInMode(mode)
       THEN /\ modesEntered' = Push(modesEntered, [mode |-> "comment", character |-> "//"])
            /\ comment' = [type |-> "double-slash",
                           start |-> i,
                           inlineAfter |-> InlineAfter(Substring(rawString, 0, i))]
            /\ i' = SkipSecondSlash(i) + 1
       ELSE /\ i' = i + 1
            /\ UNCHANGED <<modesEntered, comment>>
    /\ UNCHANGED <<rawString, result, status>>
    /\ RuleUnchanged

\* Lines 119 and 144: the open comment with comment.end assigned.
WithEnd(c, end) ==
    [type |-> c.type, start |-> c.start, inlineAfter |-> c.inlineAfter, end |-> end]

\* A close that counts one character too many.
CssCommentEndPastSlash(k) == k + 2

\* Line 119: comment.end = i + 1
CssCommentEnd(k) == k + 1

\* Lines 124-133: the finished css record.
CssRecord(c, end, commentRaw, matches, rest) ==
    [type |-> c.type,
     start |-> c.start,
     end |-> end,
     inlineAfter |-> c.inlineAfter,
     raws |-> [startToken |-> matches[1],
               left |-> matches[2],
               text |-> commentRaw,
               right |-> matches[4],
               endToken |-> matches[5]],
     text |-> matches[3],
     inlineBefore |-> InlineBefore(rest)]

\* case "*":
Star ==
    /\ InLoop
    /\ character = "*"
    /\ IF /\ mode = "comment"
          /\ At(modesEntered, lastModeIndex).character = "/*"
          /\ nextChar = "/"
       THEN LET end == CssCommentEnd(i)
                commentRaw == Substring(rawString, comment.start, end + 1)
                m == CssMatch(commentRaw)
            IN  IF m.found
                THEN /\ modesEntered' = Pop(modesEntered)
                     /\ result' = Append(result,
                                         CssRecord(comment, end, commentRaw, m.groups,
                                                   Substring(rawString, i + 2, Len(rawString))))
                     /\ comment' = NoComment
                     /\ i' = SkipClosingSlash(i) + 1
                     /\ UNCHANGED status
                ELSE \* matches is null: line 123 has popped the frame
                     \* when matches[1] of line 125 raises a TypeError
                     /\ status' = "threw"
                     /\ modesEntered' = Pop(modesEntered)
                     /\ comment' = WithEnd(comment, end)
                     /\ UNCHANGED <<i, result>>
       ELSE /\ i' = i + 1
            /\ UNCHANGED <<modesEntered, result, comment, status>>
    /\ UNCHANGED rawString
    /\ RuleUnchanged

\* An end that takes the closing character into the span.
DoubleSlashCommentEndAtCloser(c, k) == k

\* Line 144: comment.end = character === "\n" ? i - 1 : i
DoubleSlashCommentEnd(c, k) == IF c = "\n" THEN k - 1 ELSE k

\* Lines 150-157: the finished double-slash record.
DoubleSlashRecord(c, end, commentRaw, matches) ==
    [type |-> c.type,
     start |-> c.start,
     end |-> end,
     inlineAfter |-> c.inlineAfter,
     raws |-> [startToken |-> matches[1],
               left |-> matches[2],
               text |-> commentRaw,
               right |-> matches[4]],
     text |-> matches[3],
     inlineBefore |-> FALSE]

\* default:
Default ==
    /\ InLoop
    /\ character \notin {"\"", "'", "(", ")", "/", "*"}
    /\ IF /\ character = "\n" \/ i = Len(rawString) - 1
          /\ mode = "comment"
          /\ At(modesEntered, lastModeIndex).character = "//"
       THEN LET end == DoubleSlashCommentEnd(character, i)
                commentRaw == Substring(rawString, comment.start, end + 1)
                m == DoubleSlashMatch(commentRaw)
            IN  IF m.found
                THEN /\ modesEntered' = Pop(modesEntered)
                     /\ result' = Append(result,
                                         DoubleSlashRecord(comment, end, commentRaw, m.groups))
                     /\ comment' = NoComment
                     /\ i' = i + 1
                     /\ UNCHANGED status
                ELSE \* matches is null: line 149 has popped the frame
                     \* when matches[1] of line 151 raises a TypeError
                     /\ status' = "threw"
                     /\ modesEntered' = Pop(modesEntered)
                     /\ comment' = WithEnd(comment, end)
                     /\ UNCHANGED <<i, result>>
       ELSE /\ i' = i + 1
            /\ UNCHANGED <<modesEntered, result, comment, status>>
    /\ UNCHANGED rawString
    /\ RuleUnchanged

\* Line 36 fails and line 168 returns result.
Return ==
    /\ status = "scanning"
    /\ i >= Len(rawString)
    /\ status' = "returned"
    /\ UNCHANGED <<rawString, i, modesEntered, result, comment>>
    /\ RuleUnchanged

(***************************************************************************)
(* The rule double-slash-comment-whitespace-inside (rules/.../index.js).   *)
(* The scan does not read the option, so the option is drawn when the      *)
(* rule first uses it: an invalid one before any scanning (line 23         *)
(* returns), a valid one when the callback walks the records.              *)
(***************************************************************************)
messages == [expected |-> "Expected a space after //",
             rejected |-> "Unexpected space after //"]

PossibleOptions == {"always", "never"}
InvalidOptions == {"sometimes"}

\* utils.validateOptions(result, ruleName, {actual, possible})
validOptions(e) == e \in PossibleOptions

NoMessage == "none"

\* The two tests on raws.left exchanged.
MessageForExchanged(c, e) ==
    IF c.raws.left = <<>> /\ e = "never" THEN messages.rejected
    ELSE IF c.raws.left # <<>> /\ e = "always" THEN messages.expected
    ELSE NoMessage

\* Lines 30-38: the message for one double-slash comment, if any.
MessageFor(c, e) ==
    IF c.raws.left # <<>> /\ e = "never" THEN messages.rejected
    ELSE IF c.raws.left = <<>> /\ e = "always" THEN messages.expected
    ELSE NoMessage

\* Lines 26-47: the forEach callback on one comment; reported is the list
\* of utils.report calls made so far.
ReportComment(reported, c, e) ==
    IF c.type # "double-slash" THEN reported
    ELSE IF MessageFor(c, e) = NoMessage THEN reported
    ELSE Append(reported, [message |-> MessageFor(c, e), index |-> c.start])

RECURSIVE ForEachComment(_, _, _, _)
ForEachComment(comments, k, reported, e) ==
    IF k > Len(comments) THEN reported
    ELSE ForEachComment(comments, k + 1, ReportComment(reported, comments[k], e), e)

\* Lines 16-23 with an option that is not possible: return before the scan.
RuleInvalidOption ==
    /\ status = "scanning"
    /\ i = 0
    /\ \E e \in InvalidOptions :
          /\ ~ validOptions(e)
          /\ expectation' = e
    /\ warnings' = <<>>
    /\ status' = "reported"
    /\ UNCHANGED <<rawString, i, modesEntered, result, comment>>

\* Lines 25-47 with a valid option, once findCommentsInRaws has returned.
RuleReport ==
    /\ status = "returned"
    /\ \E e \in PossibleOptions :
          /\ validOptions(e)
          /\ expectation' = e
          /\ warnings' = ForEachComment(result, 1, <<>>, e)
    /\ status' = "reported"
    /\ UNCHANGED <<rawString, i, modesEntered, result, comment>>

Next ==
    \/ ModeOfUndefined
    \/ Quote
    \/ OpenParen
    \/ CloseParen
    \/ Slash
    \/ Star
    \/ Default
    \/ Return
    \/ RuleInvalidOption
    \/ RuleReport

Spec == Init /\ [][Next]_vars

SpecCss == InitCss /\ [][Next]_vars

SpecText == InitText /\ [][Next]_vars

SpecLine == InitLine /\ [][Next]_vars

(***************************************************************************)
(* Claims.                                                                 *)
(***************************************************************************)
Top == At(modesEntered, lastModeIndex)

InComment(marker) ==
    /\ modesEntered # <<>>
    /\ Top.mode = "comment"
    /\ Top.character = marker

\* C1: findCommentsInRaws is total: on every input the scan runs to the
\* end of the input and returns its list of records; no iteration raises
\* an error.
ScanIsTotal == status # "threw"

QuoteChars == {"\"", "'"}

\* The first string literal of s, when nothing before it can open a
\* comment: it runs from the first quote q0 to the next unescaped quote of
\* the same kind q1.
IsFirstStringRegion(s, q0, q1) ==
    /\ q0 < q1
    /\ At(s, q0) \in QuoteChars
    /\ \A k \in 0 .. q0 - 1 : At(s, k) \notin QuoteChars \cup {"/"}
    /\ At(s, q1) = At(s, q0)
    /\ At(s, q1 - 1) # "\\"
    /\ \A k \in q0 + 1 .. q1 - 1 : ~ (At(s, k) = At(s, q0) /\ At(s, k - 1) # "\\")

\* C2: no returned record has a span that overlaps the quoted region of a
\* string literal: a comment marker between the opening and the closing
\* quote of a string opens no comment and contributes no record.
RecordsAvoidStrings ==
    status = "returned" =>
        \A q0, q1 \in 0 .. Len(rawString) - 1 :
            IsFirstStringRegion(rawString, q0, q1) =>
                \A n \in 1 .. Len(result) :
                    result[n].end < q0 \/ result[n].start > q1

\* C3: every record emitted so far lies within the input with
\* 0 <= start < end <= length - 1, and the records are strictly ordered by
\* start.
RecordsInBoundsAndOrdered ==
    \A n \in 1 .. Len(result) :
        /\ 0 <= result[n].start
        /\ result[n].start < result[n].end
        /\ result[n].end <= Len(rawString) - 1
        /\ n > 1 => result[n].start > result[n - 1].start

\* Two records have been returned.
TwoRecordsReturned == status = "returned" /\ Len(result) >= 2

\* The loop is at a `//` outside a comment.
AtDoubleSlash ==
    /\ InLoop
    /\ character = "/"
    /\ nextChar = "/"
    /\ mode # "comment"

\* C4: a `//` met while the innermost context is url pushes no comment
\* frame and starts no record (the scan only moves to the next character),
\* while a `//` met while the innermost context is parens opens a line
\* comment at that index; so `url(//a)` and `(url(//a` give no record and
\* `(//a` gives one.
UrlSuppressesDoubleSlash ==
    /\ [][ AtDoubleSlash =>
             /\ mode = "url" =>
                  /\ modesEntered' = modesEntered
                  /\ comment' = comment
                  /\ result' = result
                  /\ i' = i + 1
             /\ mode = "parens" =>
                  /\ modesEntered' = Push(modesEntered,
                                          [mode |-> "comment", character |-> "//"])
                  /\ comment'.type = "double-slash"
                  /\ comment'.start = i ]_vars
    /\ [](status = "returned" =>
             /\ rawString \in { <<"u", "r", "l", "(", "/", "/", "a", ")">>,
                                <<"(", "u", "r", "l", "(", "/", "/", "a">> }
                  => result = <<>>
             /\ rawString = <<"(", "/", "/", "a">>
                  => Len(result) = 1 /\ result[1].start = 1)

\* The scan has just passed the first slash of a `//` that directly
\* follows the `(` of a url( nested in another group.
PassedDoubleSlashInNestedUrl ==
    /\ InLoop
    /\ i >= 2
    /\ mode = "url"
    /\ Len(modesEntered) >= 3
    /\ At(rawString, i - 2) = "("
    /\ At(rawString, i - 1) = "/"
    /\ character = "/"
    /\ result = <<>>
    /\ comment = NoComment

\* C5: every line comment that is opened is emitted: when the scan
\* returns, no `//` frame is left open (a line comment without a following
\* line break was closed at the last character).
LineCommentAlwaysEmitted == status = "returned" => ~ InComment("//")

\* A `*/` occurs in s after the opening marker that starts at k.
HasCloseAfter(s, k) ==
    \E j \in k + 2 .. Len(s) - 2 : At(s, j) = "*" /\ At(s, j + 1) = "/"

UnterminatedBlockOpen ==
    InComment("/*") /\ ~ HasCloseAfter(rawString, comment.start)

\* C6: an unterminated block comment is never emitted and never raises:
\* no css record starts at a `/*` that has no `*/` after it, and once such
\* a `/*` has opened a frame the frame stays open, no record is added (so
\* none starts at or after it) and no step raises.
UnterminatedBlockDropped ==
    /\ [](/\ \A n \in 1 .. Len(result) :
                result[n].type = "css" => HasCloseAfter(rawString, result[n].start)
          /\ UnterminatedBlockOpen =>
                /\ status # "threw"
                /\ \A n \in 1 .. Len(result) : result[n].start < comment.start)
    /\ [][ UnterminatedBlockOpen =>
             /\ InComment("/*")'
             /\ comment' = comment
             /\ result' = result
             /\ status' # "threw" ]_vars

\* The scan returned with a block comment still open after an earlier
\* record.
ReturnedInsideBlockAfterRecord ==
    /\ status = "returned"
    /\ UnterminatedBlockOpen
    /\ Len(result) >= 1

\* A non-whitespace character occurs between the last line break before
\* index k of s (or the beginning of s) and k.
CodeBeforeOnLine(s, k) ==
    \E j \in 0 .. k - 1 :
        /\ At(s, j) \notin WhiteSpace
        /\ \A m \in j .. k - 1 : At(s, m) # "\n"

\* C7: for every record, inlineAfter is true exactly when a non-whitespace
\* character occurs between the last line break before the comment's
\* start (or the beginning of the input) and the start; it is false for a
\* comment that is the first token on its line, the first line included.
InlineAfterIsCodeBefore ==
    \A n \in 1 .. Len(result) :
        result[n].inlineAfter = CodeBeforeOnLine(rawString, result[n].start)

HorizontalSpace == {" ", "\t"}

\* After index e of s and any horizontal whitespace, a non-whitespace
\* character occurs before the next line break.
CodeAfterOnLine(s, e) ==
    \E j \in e + 1 .. Len(s) - 1 :
        /\ At(s, j) \notin WhiteSpace
        /\ \A m \in e + 1 .. j - 1 : At(s, m) \in HorizontalSpace

\* C8: for every css record, inlineBefore is true exactly when, after the
\* closing marker and any horizontal whitespace, a non-whitespace
\* character occurs before the next line break; for every double-slash
\* record it is false.
InlineBeforeIsCodeAfter ==
    \A n \in 1 .. Len(result) :
        IF result[n].type = "css"
        THEN result[n].inlineBefore = CodeAfterOnLine(rawString, result[n].end)
        ELSE result[n].inlineBefore = FALSE

\* `/`, then one or more stars, then at most one `!` or `#`.
IsStartToken(t) ==
    /\ Len(t) >= 2
    /\ t[1] = "/"
    /\ \E stars \in 1 .. Len(t) - 1 :
          /\ AllIn(t, 1, 1 + stars, {"*"})
          /\ \/ Len(t) = 1 + stars
             \/ Len(t) = 2 + stars /\ t[Len(t)] \in {"!", "#"}

\* One or more stars, then `/`.
IsEndToken(t) ==
    /\ Len(t) >= 2
    /\ AllIn(t, 0, Len(t) - 1, {"*"})
    /\ t[Len(t)] = "/"

\* C9: for every css record the fields partition the span: startToken,
\* left, text, right and endToken concatenate to rawString[start..end];
\* startToken is `/`, stars and an optional `!` or `#`; endToken is stars
\* and `/`; left and right are whitespace; and text neither begins nor
\* ends with a whitespace character.  `/*  a  */` splits into `/*`, two
\* spaces, `a`, two spaces, `*/`.
CssDecompositionPartitions ==
    /\ \A n \in 1 .. Len(result) :
          LET r == result[n]
          IN  r.type = "css" =>
                /\ r.raws.startToken \o r.raws.left \o r.text
                       \o r.raws.right \o r.raws.endToken
                     = Substring(rawString, r.start, r.end + 1)
                /\ r.raws.text = Substring(rawString, r.start, r.end + 1)
                /\ IsStartToken(r.raws.startToken)
                /\ IsEndToken(r.raws.endToken)
                /\ AllIn(r.raws.left, 0, Len(r.raws.left), WhiteSpace)
                /\ AllIn(r.raws.right, 0, Len(r.raws.right), WhiteSpace)
                /\ r.text # <<>> =>
                     /\ r.text[1] \notin WhiteSpace
                     /\ r.text[Len(r.text)] \notin WhiteSpace
    /\ (status = "returned"
           /\ rawString = <<"/", "*", " ", " ", "a", " ", " ", "*", "/">>) =>
          /\ Len(result) = 1
          /\ result[1].raws.startToken = <<"/", "*">>
          /\ result[1].raws.left = <<" ", " ">>
          /\ result[1].text = <<"a">>
          /\ result[1].raws.right = <<" ", " ">>
          /\ result[1].raws.endToken = <<"*", "/">>

\* A css record with a flagged start token and whitespace on both sides
\* of its text has been returned.
FlaggedPaddedBlockReturned ==
    /\ status = "returned"
    /\ \E n \in 1 .. Len(result) :
          /\ result[n].type = "css"
          /\ result[n].raws.startToken = <<"/", "*", "!">>
          /\ result[n].raws.left # <<>>
          /\ result[n].text # <<>>
          /\ result[n].raws.right # <<>>

\* Record r breaks option e of the rule.
Offends(r, e) ==
    /\ r.type = "double-slash"
    /\ \/ e = "always" /\ r.raws.left = <<>>
       \/ e = "never" /\ r.raws.left # <<>>

\* C10: when the rule has run, an invalid option gave no warning; a valid
\* one gave exactly one warning per offending double-slash record, in
\* record order, each at index = the record's start with 'Expected a space
\* after //' under "always" and 'Unexpected space after //' under "never";
\* css records and conforming double-slash records gave none.
RuleWarnsPerOffendingRecord ==
    status = "reported" =>
        IF expectation \notin {"always", "never"}
        THEN warnings = <<>>
        ELSE LET offending == {n \in 1 .. Len(result) : Offends(result[n], expectation)}
             IN  /\ Len(warnings) = Cardinality(offending)
                 /\ \A n \in offending :
                      LET m == Cardinality({k \in offending : k <= n})
                      IN  /\ warnings[m].index = result[n].start
                          /\ warnings[m].message =
                               IF expectation = "always"
                               THEN "Expected a space after //"
                               ELSE "Unexpected space after //"

\* The rule has run with "never" over two records and warned about one.
RuleWarnedAboutOneOfTwo ==
    /\ status = "reported"
    /\ expectation = "never"
    /\ Len(result) = 2
    /\ Len(warnings) = 1

\* C12: in every state of the scan the mode stack is non-empty and its
\* bottom frame is the sentinel normal frame; a `)` met with only the
\* sentinel on the stack does not remove it.
SentinelStaysAtBottom ==
    /\ modesEntered # <<>>
    /\ modesEntered[1] = [mode |-> "normal", character |-> Null]

\* The loop is at a quote inside a string that does not end the string:
\* a quote of the other kind, or the string's own quote after a backslash.
AtQuoteInsideString ==
    /\ InLoop
    /\ mode = "string"
    /\ character \in QuoteChars
    /\ \/ character # Top.character
       \/ prevChar = "\\"

\* C13: inside a string, a quote of the other kind and an escaped quote
\* leave the mode stack unchanged (no push, no pop).
QuoteInsideStringKeepsStack ==
    [][ AtQuoteInsideString => modesEntered' = modesEntered ]_vars

\* The step is an iteration of the loop: it moves to another index or
\* raises.
IterationRuns == i' # i \/ status' = "threw"

\* The longest run of identifier characters of s that ends right before
\* index k.
IdentRunBefore(s, k) ==
    LET from == CHOOSE q \in 0 .. k :
                    /\ AllIn(s, q, k, IdentChars)
                    /\ q = 0 \/ At(s, q - 1) \notin IdentChars
    IN  Substring(s, from, k)

\* C14: on `(` outside comment and string, the scan pushes url exactly
\* when the longest run of identifier characters right before the `(` is
\* `url`, and pushes parens in every other case.
ParenPushesByIdentRun ==
    [][ (InLoop /\ character = "(" /\ mode \notin {"comment", "string"}
             /\ IterationRuns) =>
            modesEntered' =
                Push(modesEntered,
                     [mode |-> IF IdentRunBefore(rawString, i) = <<"u", "r", "l">>
                               THEN "url" ELSE "parens",
                      character |-> "("]) ]_vars

\* The last record of a result.
LastRecord(records) == records[Len(records)]

\* C15: while a comment frame is on top, a quote, `(`, `)`, `/` and a `*`
\* not followed by `/` leave the mode stack and the result unchanged; the
\* stack changes only by popping the frame, a `/*` frame only at `*`
\* followed by `/` and a `//` frame only at a line break or the last
\* index, and each pop appends exactly one record, of the frame's type.
CommentFrameOnlyPoppedAtClose ==
    [][ (InLoop /\ mode = "comment") =>
          /\ ( \/ character \in QuoteChars \cup {"(", ")", "/"}
               \/ character = "*" /\ nextChar # "/" ) =>
                 /\ modesEntered' = modesEntered
                 /\ result' = result
          /\ result' # result => modesEntered' # modesEntered
          /\ modesEntered' # modesEntered =>
                 /\ modesEntered' = Pop(modesEntered)
                 /\ Len(result') = Len(result) + 1
                 /\ result' = Append(result, LastRecord(result'))
                 /\ IF Top.character = "/*"
                    THEN /\ character = "*" /\ nextChar = "/"
                         /\ LastRecord(result').type = "css"
                    ELSE /\ character = "\n" \/ i = Len(rawString) - 1
                         /\ LastRecord(result').type = "double-slash" ]_vars

\* The iteration about to run closes the comment on top: line 118 holds,
\* or lines 142-143 hold in the default case.
ClosesComment ==
    /\ InLoop
    /\ mode = "comment"
    /\ \/ Top.character = "/*" /\ character = "*" /\ nextChar = "/"
       \/ /\ Top.character = "//"
          /\ character \notin QuoteChars \cup {"(", ")", "/", "*"}
          /\ character = "\n" \/ i = Len(rawString) - 1

\* C16: decomposition never fails on a span the scanner closes: the
\* iteration that closes a block or a line comment raises no error and
\* appends the record with its marker, whitespace and text fields, also
\* when the line span holds a carriage return followed by more text.
ClosedSpanDecomposes ==
    [][ ClosesComment =>
          /\ status' # "threw"
          /\ Len(result') = Len(result) + 1
          /\ LastRecord(result').raws.startToken # <<>> ]_vars

\* The double-slash records of the result.
LineRecords == { n \in 1 .. Len(result) : result[n].type = "double-slash" }

\* The longest run of `/` at the start of s.
LeadingSlashes(s) ==
    LET n == CHOOSE n \in 0 .. Len(s) :
                 /\ AllIn(s, 0, n, {"/"})
                 /\ n = Len(s) \/ At(s, n) # "/"
    IN  Substring(s, 0, n)

RecordsDisjoint ==
    /\ [](/\ \A n \in 2 .. Len(result) : result[n - 1].end < result[n].start
          /\ (InComment("/*") \/ InComment("//")) =>
                \A n \in 1 .. Len(result) : result[n].end < comment.start)
    /\ [][ (InLoop /\ mode = "comment" /\ character = "/") =>
             /\ modesEntered' = modesEntered
             /\ comment' = comment
             /\ result' = result
             /\ i' = i + 1 ]_vars

\* A block comment and the line comment right after it were returned.
AdjacentRecordsReturned ==
    /\ status = "returned"
    /\ Len(result) = 2
    /\ result[1].type = "css"
    /\ result[2].type = "double-slash"
    /\ result[2].start = result[1].end + 1

\* The css records of the result.
BlockRecords == { n \in 1 .. Len(result) : result[n].type = "css" }

\* The indices of the marker characters the scan skips: the second
\* character of every opening marker and the `/` of every closing `*/`.
SkippedIndices ==
    { result[n].start + 1 : n \in 1 .. Len(result) }
        \cup { result[n].end : n \in BlockRecords }
        \cup IF InComment("/*") \/ InComment("//") THEN {comment.start + 1} ELSE {}

\* Where a comment starts: the records and the open comment.
CommentStarts ==
    { result[n].start : n \in 1 .. Len(result) }
        \cup IF InComment("/*") \/ InComment("//") THEN {comment.start} ELSE {}

\* C19: the `*` of an opening `/*` is never reused by the closing marker:
\* inside a block comment the scan is past both opening characters, so
\* `/*/` closes nothing and every css record has end >= start + 3, begins
\* with `/*` and ends with `*/`; the step that opens a comment and the
\* step that closes a block comment move two characters on, and no
\* comment starts at a skipped character.
MarkerCharactersNotReused ==
    /\ [](/\ \A n \in BlockRecords :
                /\ result[n].end >= result[n].start + 3
                /\ At(rawString, result[n].start) = "/"
                /\ At(rawString, result[n].start + 1) = "*"
                /\ At(rawString, result[n].end - 1) = "*"
                /\ At(rawString, result[n].end) = "/"
          /\ (status = "scanning" /\ (InComment("/*") \/ InComment("//"))) =>
                i >= comment.start + 2
          /\ CommentStarts \cap SkippedIndices = {})
    /\ [][ (InLoop /\ Len(modesEntered') > Len(modesEntered)
                /\ character = "/") => i' = i + 2 ]_vars
    /\ [][ (ClosesComment /\ Top.character = "/*" /\ status' # "threw") =>
                i' = i + 2 ]_vars

\* A block comment whose text is one `/` was returned: `/*/` did not
\* close it.
SlashOnlyBlockReturned ==
    /\ status = "returned"
    /\ \E n \in BlockRecords :
          /\ result[n].text = <<"/">>
          /\ result[n].raws.left = <<>>
          /\ result[n].end = result[n].start + 4

====
